---- MODULE Spec2Model ----
(***************************************************************************)
(* State-machine model of the cart page script (script.js, the complete    *)
(* snapshot that starts at line 123): CartManager, its load sequence       *)
(* (fetchCartItems), its event handlers and the localStorage helpers.      *)
(*                                                                         *)
(* JavaScript values are tagged records so that NaN, JSON null and the     *)
(* text of an <input type="number"> stay distinct from integers.           *)
(***************************************************************************)
EXTENDS Integers, Sequences, FiniteSets

\* ------------------------------------------------------------------ bounds
MaxItems == 2
MaxId == 2
MaxQty == 2

\* Unit prices (minor currency units) offered by the enumerated snapshots.
Prices == {250}

\* ------------------------------------------------------- JavaScript values
\* A JavaScript number that is an integer.
N(n) == [k |-> "num", n |-> n]
\* The JavaScript number NaN.
NaN == [k |-> "NaN", n |-> 0]
\* The JSON value null.
Null == [k |-> "null", n |-> 0]
\* Text content of an element the script has not written yet.
Unset == [k |-> "unset", n |-> 0]

\* a + b and a * b on JavaScript numbers: NaN is absorbing.
Add(a, b) == IF a.k = "NaN" \/ b.k = "NaN" THEN NaN ELSE N(a.n + b.n)
Mul(a, b) == IF a.k = "NaN" \/ b.k = "NaN" THEN NaN ELSE N(a.n * b.n)

\* An item identifier as it comes out of JSON: a number or a string of digits.
NumId(i) == [k |-> "num", n |-> i]
StrId(i) == [k |-> "str", n |-> i]

\* The value of an <input type="number">: "" or a decimal numeral w.f with one
\* fractional digit f (f = 0 stands for the numeral without a fraction).
Empty == [k |-> "empty", w |-> 0, f |-> 0]
Dec(w, f) == [k |-> "dec", w |-> w, f |-> f]

\* parseInt(text): the integer prefix of the numeral, NaN for "".
parseInt(t) == IF t.k = "empty" THEN NaN ELSE N(t.w)

\* Ten times Number(text), the value "input.value > 1" compares (Number("") = 0).
Tenths(t) == IF t.k = "empty" THEN 0 ELSE 10 * t.w + t.f

\* Assigning a number to input.value: String(x), and the number field
\* sanitises the non-numeral "NaN" to "".
ToText(x) == IF x.k = "NaN" THEN Empty ELSE Dec(x.n, 0)

\* The `${...}` interpolation of a value read from JSON into value="...".
\* null prints as "null", which the number field sanitises to "".
AttrText(x) == IF x.k = "num" THEN Dec(x.n, 0) ELSE Empty

\* The text of data-id="${item.id}": the digits of the identifier, for a
\* number and for a string alike, kept as the integer the digits spell.
DataId(id) == id.n

\* formatCurrency(amount): amount / 100 rounded to a whole unit, halves away
\* from zero (Intl.NumberFormat, maximumFractionDigits 0); kept as the number
\* printed, the currency sign and digit grouping left out. NaN prints "NaN".
formatCurrency(a) ==
    IF a.k = "NaN" THEN NaN
    ELSE IF a.n >= 0 THEN N((a.n + 50) \div 100)
    ELSE N(0 - ((50 - a.n) \div 100))

\* ------------------------------------------------------ persistence helpers
\* What localStorage holds under the key 'cart': nothing, a text that is not
\* JSON, or the JSON text of an object with an items array.
Absent == [k |-> "absent", items |-> <<>>]
Corrupt == [k |-> "corrupt", items |-> <<>>]
CartText(its) == [k |-> "cart", items |-> its]

\* JSON.stringify of an item list: a NaN quantity is written as null.
Stringify(its) ==
    [i \in DOMAIN its |->
        [its[i] EXCEPT !.quantity = IF @.k = "NaN" THEN Null ELSE @]]

\* saveCartToLocalStorage(cart): the new content of the key.
saveCartToLocalStorage(its) == CartText(Stringify(its))

\* getCartFromLocalStorage(): JSON.parse(getItem('cart')) || null. A missing
\* key gives null; a text that is not JSON makes JSON.parse throw.
getCartFromLocalStorage(st) ==
    IF st.k = "corrupt" THEN [k |-> "throws", items |-> <<>>]
    ELSE IF st.k = "absent" THEN [k |-> "null", items |-> <<>>]
    ELSE [k |-> "cart", items |-> st.items]

\* ------------------------------------------------------------ input domain
ItemIds == {NumId(i) : i \in 1..MaxId} \cup {StrId(1)}

LineItems ==
    [id : ItemIds, price : {N(p) : p \in Prices}, quantity : {N(q) : q \in 1..MaxQty}]

\* Cart snapshots a store or the remote resource can hold at load time.
Snapshots == UNION {[1..n -> LineItems] : n \in 0..MaxItems}

\* What await response.json() can fulfil with (response.ok is not tested, so
\* any JSON body arrives): an object whose items member is a snapshot, an
\* object whose items array holds null, or an object with no items member.
Bodies ==
    {[k |-> "cart", items |-> s] : s \in Snapshots}
        \cup {[k |-> "cart", items |-> <<Null>>], [k |-> "noItems", items |-> <<>>]}

\* Texts a user can leave in a quantity field.
EditTexts ==
    {Empty} \cup {Dec(w, 0) : w \in (0 - 1)..MaxQty}
            \cup {Dec(w, 5) : w \in 1..(MaxQty - 1)}

\* ------------------------------------------------------------------- state
VARIABLES
    items,          \* this.items, when it is an array
    itemsUndefined, \* this.items is undefined (items is then left as it was)
    subtotal,       \* this.subtotal
    rows,           \* the .cart-item rows attached to #cart-items, in order
    errorShown,     \* #cart-items holds the error paragraph
    subtotalText,   \* #cart-subtotal text
    totalText,      \* #cart-total text
    cartCountText,  \* .cart-count text
    modal,          \* #remove-item-modal style.display
    itemToRemove,   \* this.itemToRemove: key of the pending row, 0 for null
    stored,         \* localStorage under 'cart'
    pc,             \* position of fetchCartItems
    netRequests,    \* fetch(API_URL) calls made
    written,        \* localStorage.setItem has been called
    alert,          \* message alerted by the latest handler, "none" if none
    initialStore,   \* kind of the stored value when the page was opened
    lastEvent       \* the handler that ran last

vars == <<items, itemsUndefined, subtotal, rows, errorShown, subtotalText, totalText,
          cartCountText, modal, itemToRemove, stored, pc, netRequests,
          written, alert, initialStore, lastEvent>>

cartVars == <<items, itemsUndefined, subtotal, rows, errorShown, subtotalText, totalText,
              cartCountText, stored, written>>
loadVars == <<errorShown, pc, netRequests, initialStore>>

\* --------------------------------------------------------------- rendering
\* createCartItemHTML(item), as the row the markup parses into. key tells the
\* row elements apart; id is the identifier data-id was printed from, of which
\* the script reads only the text DataId(id).
createCartItemHTML(item, key) ==
    [key |-> key,
     id |-> item.id,
     value |-> AttrText(item.quantity),
     total |-> formatCurrency(Mul(item.price, item.quantity))]

RECURSIVE SumPrices(_), SumQuantities(_)
\* items.reduce((total, item) => total + item.price * item.quantity, 0)
SumPrices(its) ==
    IF its = <<>> THEN N(0)
    ELSE Add(SumPrices(SubSeq(its, 1, Len(its) - 1)),
             Mul(its[Len(its)].price, its[Len(its)].quantity))
\* items.reduce((count, item) => count + item.quantity, 0)
SumQuantities(its) ==
    IF its = <<>> THEN N(0)
    ELSE Add(SumQuantities(SubSeq(its, 1, Len(its) - 1)), its[Len(its)].quantity)

\* renderCartItems() throws a TypeError before it writes anything: this.items
\* is undefined (undefined.map), or createCartItemHTML reads item.id of null.
RenderThrows(cartData) ==
    \/ cartData.k = "noItems"
    \/ \E i \in DOMAIN cartData.items : cartData.items[i] = Null

\* calculateTotals() on the item list its.
calculateTotals(its) ==
    /\ subtotal' = SumPrices(its)
    /\ subtotalText' = formatCurrency(SumPrices(its))
    /\ totalText' = formatCurrency(SumPrices(its))
    /\ cartCountText' = SumQuantities(its)

\* renderCartItems() on the item list its (listeners are the user actions).
renderCartItems(its) ==
    /\ rows' = [i \in DOMAIN its |-> createCartItemHTML(its[i], i)]
    /\ calculateTotals(its)

\* -------------------------------------------------------------------- Init
\* The state the constructor leaves, for each content of the store: nothing,
\* a text that is not JSON, or a snapshot saved by an earlier visit.
Init ==
    /\ items = <<>>
    /\ itemsUndefined = FALSE
    /\ subtotal = N(0)
    /\ rows = <<>>
    /\ errorShown = FALSE
    /\ subtotalText = Unset
    /\ totalText = Unset
    /\ cartCountText = Unset
    /\ modal = "none"
    /\ itemToRemove = 0
    /\ stored \in {Absent, Corrupt} \cup {saveCartToLocalStorage(s) : s \in Snapshots}
    /\ pc = "init"
    /\ netRequests = 0
    /\ written = FALSE
    /\ alert = "none"
    /\ initialStore = stored.k
    /\ lastEvent = "none"

\* ----------------------------------------------------------------- loading
\* The catch block of fetchCartItems.
LoadError ==
    /\ errorShown' = TRUE
    /\ rows' = <<>>
    /\ pc' = "error"

\* LoadStart with the stored snapshot ignored: the load always goes to the
\* remote resource.
LoadStartNoCache ==
    /\ pc = "init"
    /\ netRequests' = netRequests + 1
    /\ pc' = "fetching"
    /\ UNCHANGED <<cartVars, modal, itemToRemove, alert, initialStore, lastEvent>>

\* fetchCartItems() from its call in init() up to the first await or return.
LoadStart ==
    /\ pc = "init"
    /\ LET storedCart == getCartFromLocalStorage(stored) IN
        CASE storedCart.k = "throws" ->
                /\ LoadError
                /\ UNCHANGED <<items, itemsUndefined, subtotal, subtotalText, totalText,
                               cartCountText, netRequests>>
          [] storedCart.k = "cart" ->
                /\ items' = storedCart.items
                /\ itemsUndefined' = FALSE
                /\ renderCartItems(storedCart.items)
                /\ pc' = "loaded"
                /\ UNCHANGED <<errorShown, netRequests>>
          [] OTHER ->
                /\ netRequests' = netRequests + 1
                /\ pc' = "fetching"
                /\ UNCHANGED <<items, itemsUndefined, subtotal, rows, errorShown, subtotalText,
                               totalText, cartCountText>>
    /\ UNCHANGED <<modal, itemToRemove, stored, written, alert, initialStore,
                   lastEvent>>

\* await fetch(API_URL) settles with a response.
FetchResolve ==
    /\ pc = "fetching"
    /\ pc' = "parsing"
    /\ UNCHANGED <<cartVars, modal, itemToRemove, netRequests, alert,
                   initialStore, lastEvent>>

\* await fetch(API_URL) rejects.
FetchReject ==
    /\ pc = "fetching"
    /\ LoadError
    /\ UNCHANGED <<items, itemsUndefined, subtotal, subtotalText, totalText, cartCountText,
                   stored, written, modal, itemToRemove, netRequests, alert,
                   initialStore, lastEvent>>

\* JsonResolve without the saveCartToLocalStorage(cartData) call.
JsonResolveNoSave ==
    /\ pc = "parsing"
    /\ \E cartData \in Bodies :
        /\ items' = cartData.items
        /\ itemsUndefined' = (cartData.k = "noItems")
        /\ IF RenderThrows(cartData)
           THEN /\ LoadError
                /\ UNCHANGED <<subtotal, subtotalText, totalText, cartCountText>>
           ELSE /\ renderCartItems(cartData.items)
                /\ pc' = "loaded"
                /\ UNCHANGED errorShown
    /\ UNCHANGED <<stored, written, modal, itemToRemove, netRequests, alert,
                   initialStore, lastEvent>>

\* await response.json() fulfils with cartData; the rest of the try block.
\* this.items is assigned first (line 175); when renderCartItems() then
\* throws, the catch block runs with the assignment done and nothing saved.
JsonResolve ==
    /\ pc = "parsing"
    /\ \E cartData \in Bodies :
        /\ items' = cartData.items
        /\ itemsUndefined' = (cartData.k = "noItems")
        /\ IF RenderThrows(cartData)
           THEN /\ LoadError
                /\ UNCHANGED <<subtotal, subtotalText, totalText, cartCountText,
                               stored, written>>
           ELSE /\ renderCartItems(cartData.items)
                /\ stored' = saveCartToLocalStorage(cartData.items)
                /\ written' = TRUE
                /\ pc' = "loaded"
                /\ UNCHANGED errorShown
    /\ UNCHANGED <<modal, itemToRemove, netRequests, alert, initialStore,
                   lastEvent>>

\* await response.json() rejects: the body is not JSON.
JsonReject ==
    /\ pc = "parsing"
    /\ LoadError
    /\ UNCHANGED <<items, itemsUndefined, subtotal, subtotalText, totalText, cartCountText,
                   stored, written, modal, itemToRemove, netRequests, alert,
                   initialStore, lastEvent>>

\* ------------------------------------------------------- quantity handlers
\* FindItem comparing the identifier's text with the row's (item.id == itemId).
FindItemLoose(its, itemId) ==
    LET hits == {i \in DOMAIN its : DataId(its[i].id) = itemId}
    IN
    IF hits = {} THEN 0 ELSE CHOOSE i \in hits : \A j \in hits : i <= j

\* this.items.find(item => item.id === parseInt(itemId)): the index of the
\* first item whose id is the number parseInt gives, 0 when find returns
\* undefined. A string id is never === a number.
FindItem(its, itemId) ==
    LET hits == {i \in DOMAIN its : its[i].id = NumId(parseInt(Dec(itemId, 0)).n)}
    IN
    IF hits = {} THEN 0 ELSE CHOOSE i \in hits : \A j \in hits : i <= j

\* updateItemQuantity that saves the cart before it assigns the quantity.
updateItemQuantitySavesFirst(r, newRows) ==
    LET itemId == DataId(newRows[r].id)
        newQuantity == parseInt(newRows[r].value)
        itemToUpdate == FindItem(items, itemId)
    IN  IF itemToUpdate # 0
        THEN LET newItems == [items EXCEPT ![itemToUpdate].quantity = newQuantity] IN
             /\ stored' = saveCartToLocalStorage(items)
             /\ written' = TRUE
             /\ items' = newItems
             /\ UNCHANGED itemsUndefined
             /\ rows' = [newRows EXCEPT ![r].total =
                            formatCurrency(Mul(items[itemToUpdate].price, newQuantity))]
             /\ calculateTotals(newItems)
        ELSE /\ rows' = newRows
             /\ UNCHANGED <<items, itemsUndefined, subtotal, subtotalText, totalText,
                            cartCountText, stored, written>>

\* updateItemQuantity without its call of calculateTotals().
updateItemQuantityStale(r, newRows) ==
    LET itemId == DataId(newRows[r].id)
        newQuantity == parseInt(newRows[r].value)
        itemToUpdate == FindItem(items, itemId)
    IN  IF itemToUpdate # 0
        THEN LET newItems == [items EXCEPT ![itemToUpdate].quantity = newQuantity] IN
             /\ items' = newItems
             /\ UNCHANGED itemsUndefined
             /\ rows' = [newRows EXCEPT ![r].total =
                            formatCurrency(Mul(items[itemToUpdate].price, newQuantity))]
             /\ stored' = saveCartToLocalStorage(newItems)
             /\ written' = TRUE
             /\ UNCHANGED <<subtotal, subtotalText, totalText, cartCountText>>
        ELSE /\ rows' = newRows
             /\ UNCHANGED <<items, itemsUndefined, subtotal, subtotalText, totalText,
                            cartCountText, stored, written>>

\* updateItemQuantity(input) for the input of row r, the rows being newRows
\* (the field already holds the text the caller or the user put there).
updateItemQuantity(r, newRows) ==
    LET itemId == DataId(newRows[r].id)
        newQuantity == parseInt(newRows[r].value)
        itemToUpdate == FindItem(items, itemId)
    IN  IF itemToUpdate # 0
        THEN LET newItems == [items EXCEPT ![itemToUpdate].quantity = newQuantity] IN
             /\ items' = newItems
             /\ UNCHANGED itemsUndefined
             /\ rows' = [newRows EXCEPT ![r].total =
                            formatCurrency(Mul(items[itemToUpdate].price, newQuantity))]
             /\ calculateTotals(newItems)
             /\ stored' = saveCartToLocalStorage(newItems)
             /\ written' = TRUE
        ELSE /\ rows' = newRows
             /\ UNCHANGED <<items, itemsUndefined, subtotal, subtotalText, totalText,
                            cartCountText, stored, written>>

\* 'change' listener of a quantity input: the user left text t in row r.
ChangeQuantity(r, t) ==
    /\ r \in DOMAIN rows
    /\ t # rows[r].value
    /\ updateItemQuantity(r, [rows EXCEPT ![r].value = t])
    /\ lastEvent' = "change"
    /\ alert' = "none"
    /\ UNCHANGED <<loadVars, modal, itemToRemove>>

\* 'click' listener of an increase button (row r); it has no upper limit.
IncreaseClick(r) ==
    /\ r \in DOMAIN rows
    /\ updateItemQuantity(r,
          [rows EXCEPT ![r].value = ToText(Add(parseInt(rows[r].value), N(1)))])
    /\ lastEvent' = "increase"
    /\ alert' = "none"
    /\ UNCHANGED <<loadVars, modal, itemToRemove>>

\* The guard of the decrease listener: input.value > 1.
DecreaseAllowed(t) == Tenths(t) > 10

\* 'click' listener of a decrease button (row r).
DecreaseClick(r) ==
    /\ r \in DOMAIN rows
    /\ IF DecreaseAllowed(rows[r].value)
       THEN /\ updateItemQuantity(r,
                  [rows EXCEPT ![r].value = ToText(Add(parseInt(rows[r].value), N(0 - 1)))])
            /\ lastEvent' = "decrease"
       ELSE /\ lastEvent' = "decreaseRefused"
            /\ UNCHANGED cartVars
    /\ alert' = "none"
    /\ UNCHANGED <<loadVars, modal, itemToRemove>>

\* --------------------------------------------------------- removal handlers
\* 'click' listener of a remove icon (row r): itemToRemove, showRemoveModal().
\* The listener has no guard on the modal, so it also runs while it is shown.
RemoveClick(r) ==
    /\ r \in DOMAIN rows
    /\ itemToRemove' = rows[r].key
    /\ modal' = "block"
    /\ lastEvent' = "remove"
    /\ alert' = "none"
    /\ UNCHANGED <<cartVars, loadVars>>

\* closeRemoveModal that hides the modal and keeps the pending row.
closeRemoveModalKeepsTarget ==
    /\ modal' = "none"
    /\ UNCHANGED itemToRemove

\* closeRemoveModal().
closeRemoveModal ==
    /\ modal' = "none"
    /\ itemToRemove' = 0

\* 'click' listener of #cancel-remove.
CancelClick ==
    /\ pc # "init"
    /\ closeRemoveModal
    /\ lastEvent' = IF itemToRemove # 0 THEN "cancel" ELSE "cancelIdle"
    /\ alert' = "none"
    /\ UNCHANGED <<cartVars, loadVars>>

\* Index in the container of the row with the given key, 0 if detached.
RowIndex(key) ==
    IF \E r \in DOMAIN rows : rows[r].key = key
    THEN CHOOSE r \in DOMAIN rows : rows[r].key = key
    ELSE 0

\* The sequence s without its element at index r.
Without(s, r) == [i \in 1..(Len(s) - 1) |-> IF i < r THEN s[i] ELSE s[i + 1]]

\* KeepItem comparing the identifier's text with the row's (item.id != itemId).
KeepItemLoose(item, itemId) == DataId(item.id) # itemId

\* The predicate of the filter in confirmRemoveItem:
\* item.id !== parseInt(itemId).
KeepItem(item, itemId) == item.id # NumId(parseInt(Dec(itemId, 0)).n)

RECURSIVE Filter(_, _)
\* this.items.filter(item => item.id !== parseInt(itemId))
Filter(its, itemId) ==
    IF its = <<>> THEN <<>>
    ELSE LET rest == Filter(SubSeq(its, 1, Len(its) - 1), itemId)
             last == its[Len(its)]
         IN  IF KeepItem(last, itemId) THEN Append(rest, last) ELSE rest

\* confirmRemoveItem with only the dataset read under the itemToRemove test:
\* with no pending row it still filters (with NaN, keeping every item),
\* recomputes the totals and saves.
ConfirmClickUnguarded ==
    /\ pc # "init"
    /\ IF itemToRemove # 0
       THEN LET r == RowIndex(itemToRemove)
                newItems == Filter(items, DataId(rows[r].id))
            IN  /\ items' = newItems
                /\ itemsUndefined' = FALSE
                /\ rows' = Without(rows, r)
                /\ calculateTotals(newItems)
                /\ stored' = saveCartToLocalStorage(newItems)
                /\ written' = TRUE
                /\ closeRemoveModal
                /\ lastEvent' = "confirm"
                /\ UNCHANGED errorShown
       ELSE /\ calculateTotals(items)
            /\ stored' = saveCartToLocalStorage(items)
            /\ written' = TRUE
            /\ closeRemoveModal
            /\ lastEvent' = "confirmIdle"
            /\ UNCHANGED <<items, itemsUndefined, rows, errorShown>>
    /\ alert' = "none"
    /\ UNCHANGED <<pc, netRequests, initialStore>>

\* confirmRemoveItem without its closing call of closeRemoveModal().
ConfirmClickLeavesModal ==
    /\ pc # "init"
    /\ IF itemToRemove # 0
       THEN LET r == RowIndex(itemToRemove)
                newItems == Filter(items, DataId(rows[r].id))
            IN  /\ items' = newItems
                /\ itemsUndefined' = FALSE
                /\ rows' = Without(rows, r)
                /\ calculateTotals(newItems)
                /\ stored' = saveCartToLocalStorage(newItems)
                /\ written' = TRUE
                /\ lastEvent' = "confirm"
                /\ UNCHANGED <<errorShown, modal, itemToRemove>>
       ELSE /\ lastEvent' = "confirmIdle"
            /\ UNCHANGED <<cartVars, modal, itemToRemove>>
    /\ alert' = "none"
    /\ UNCHANGED <<pc, netRequests, initialStore>>

\* 'click' listener of #confirm-remove: confirmRemoveItem().
ConfirmClick ==
    /\ pc # "init"
    /\ IF itemToRemove # 0
       THEN LET r == RowIndex(itemToRemove)
                newItems == Filter(items, DataId(rows[r].id))
            IN  /\ items' = newItems
                /\ itemsUndefined' = FALSE
                /\ rows' = Without(rows, r)
                /\ calculateTotals(newItems)
                /\ stored' = saveCartToLocalStorage(newItems)
                /\ written' = TRUE
                /\ closeRemoveModal
                /\ lastEvent' = "confirm"
                /\ UNCHANGED errorShown
       ELSE /\ lastEvent' = "confirmIdle"
            /\ UNCHANGED <<cartVars, modal, itemToRemove>>
    /\ alert' = "none"
    /\ UNCHANGED <<pc, netRequests, initialStore>>

\* ---------------------------------------------------------------- checkout
\* proceedToCheckout without the return after the empty-cart alert: the
\* second alert is the one left showing.
CheckoutClickNoReturn ==
    /\ pc # "init"
    /\ alert' = IF itemsUndefined THEN "none" ELSE "Proceeding to checkout..."
    /\ lastEvent' = "checkout"
    /\ UNCHANGED <<cartVars, loadVars, modal, itemToRemove>>

\* 'click' listener of #checkout-btn: proceedToCheckout(). With this.items
\* undefined, this.items.length throws and nothing is alerted.
CheckoutClick ==
    /\ pc # "init"
    /\ alert' = IF itemsUndefined THEN "none"
                ELSE IF Len(items) = 0 THEN "Your cart is empty!"
                ELSE "Proceeding to checkout..."
    /\ lastEvent' = "checkout"
    /\ UNCHANGED <<cartVars, loadVars, modal, itemToRemove>>

\* ------------------------------------------------------------ specification
\* The behaviours explored stop raising a quantity field at MaxField, one
\* above the largest quantity a snapshot is loaded with; the handlers
\* themselves are not limited.
MaxField == MaxQty + 1
FieldsWithinBound(rs) ==
    \A r \in DOMAIN rs : parseInt(rs[r].value).k = "NaN" \/ parseInt(rs[r].value).n <= MaxField

Next ==
    \/ LoadStart
    \/ FetchResolve
    \/ FetchReject
    \/ JsonResolve
    \/ JsonReject
    \/ \E r \in 1..MaxItems, t \in EditTexts : ChangeQuantity(r, t)
    \/ \E r \in 1..MaxItems : IncreaseClick(r) /\ FieldsWithinBound(rows')
    \/ \E r \in 1..MaxItems : DecreaseClick(r)
    \/ \E r \in 1..MaxItems : RemoveClick(r)
    \/ CancelClick
    \/ ConfirmClick
    \/ CheckoutClick

Spec == Init /\ [][Next]_vars

\* ------------------------------------------------------------------ claims
\* The item row r stands for, when the lookup of updateItemQuantity finds one
\* and no other item carries the same identifier text; 0 otherwise.
ItemOfRow(r) ==
    LET i == FindItem(items, DataId(rows[r].id)) IN
    IF i # 0 /\ \A j \in DOMAIN items : DataId(items[j].id) = DataId(rows[r].id) => j = i
    THEN i ELSE 0

\* C1: once the cart is loaded, every item of the in-memory cart has a
\* quantity that is an integer >= 1, whatever is clicked or typed.
C1_QuantityAtLeastOne ==
    pc = "loaded" =>
        \A i \in DOMAIN items : items[i].quantity.k = "num" /\ items[i].quantity.n >= 1

\* C2: once the cart is loaded, the item list stored under 'cart' equals the
\* in-memory item list between any two handlers.
C2_WriteThrough ==
    pc = "loaded" =>
        /\ getCartFromLocalStorage(stored).k = "cart"
        /\ getCartFromLocalStorage(stored).items = items

\* C3: with an unparseable text under 'cart', the load goes on to the remote
\* fetch as it does when nothing is stored, and shows no error for it.
C3_ParseFailureIsCacheMiss ==
    (initialStore = "corrupt" /\ pc # "init") =>
        /\ netRequests = 1
        /\ (pc = "fetching" => ~errorShown)

\* C4: with a snapshot stored when the page opens, the load fills the
\* in-memory cart from that snapshot and no network request is ever made.
C4_CacheFirst ==
    initialStore = "cart" =>
        /\ netRequests = 0
        /\ pc \in {"init", "loaded"}
        /\ (pc = "loaded" /\ lastEvent = "none") =>
                /\ items = getCartFromLocalStorage(stored).items
                /\ Len(rows) = Len(items)
                /\ ~errorShown

C4_Witness ==
    /\ initialStore = "cart"
    /\ pc = "loaded"
    /\ Len(items) = MaxItems
    /\ lastEvent = "change"
    /\ netRequests = 0

\* C5: with nothing stored, a load whose fetch or response parsing failed
\* ends showing the error message, with the in-memory cart still the empty
\* list and the store never written.
C5_FetchFailure ==
    (initialStore = "absent" /\ pc = "error") =>
        /\ errorShown
        /\ rows = <<>>
        /\ ~itemsUndefined
        /\ items = <<>>
        /\ ~written
        /\ stored = Absent

RECURSIVE C6_Subtotal(_), C6_Count(_)
C6_Subtotal(its) ==
    IF its = <<>> THEN N(0)
    ELSE Add(Mul(Head(its).price, Head(its).quantity), C6_Subtotal(Tail(its)))
C6_Count(its) ==
    IF its = <<>> THEN N(0) ELSE Add(Head(its).quantity, C6_Count(Tail(its)))

\* C6: once the cart is rendered, the subtotal is the sum of price x quantity
\* over the in-memory items, the subtotal and total displays show it
\* formatted, and the cart count shows the sum of the quantities.
C6_Aggregates ==
    pc = "loaded" =>
        /\ subtotal = C6_Subtotal(items)
        /\ subtotalText = formatCurrency(C6_Subtotal(items))
        /\ totalText = formatCurrency(C6_Subtotal(items))
        /\ cartCountText = C6_Count(items)

C6_Witness ==
    /\ pc = "loaded"
    /\ lastEvent = "increase"
    /\ Len(items) = 1
    /\ items[1].quantity = N(3)
    /\ subtotal = N(750)
    /\ subtotalText = N(8)
    /\ cartCountText = N(3)

\* C7: confirming with pending row X leaves no item with X's identifier in
\* the in-memory cart or in the stored snapshot, detaches X's row, clears the
\* pending row and hides the modal.
C7_ConfirmRemoves ==
    [][(ConfirmClick /\ itemToRemove # 0) =>
        LET x == rows[RowIndex(itemToRemove)].id IN
        /\ \A i \in DOMAIN items' : items'[i].id # x
        /\ \A i \in DOMAIN stored'.items : stored'.items[i].id # x
        /\ \A r \in DOMAIN rows' : rows'[r].key # itemToRemove
        /\ subtotal' = C6_Subtotal(items')
        /\ itemToRemove' = 0
        /\ modal' = "none"]_vars

\* C8: activating a removal and cancelling it change neither the in-memory
\* items, the stored snapshot, the aggregates nor the rows, and the cancel
\* clears the pending row and hides the modal.
C8_CancelKeepsCart ==
    [][((\E r \in 1..MaxItems : RemoveClick(r)) \/ CancelClick) =>
        /\ UNCHANGED <<items, stored, subtotal, subtotalText, totalText,
                       cartCountText, rows, errorShown>>
        /\ CancelClick => (itemToRemove' = 0 /\ modal' = "none")]_vars

C8_Witness ==
    /\ lastEvent = "cancel"
    /\ itemToRemove = 0
    /\ modal = "none"
    /\ Len(items) = MaxItems
    /\ Len(rows) = Len(items)

\* C9: a decrement click on the row of an item whose quantity is 1 changes
\* neither the field, the in-memory items nor the stored snapshot.
C9_QuantityFloor ==
    [][\A r \in DOMAIN rows :
        (DecreaseClick(r) /\ ItemOfRow(r) # 0 /\ items[ItemOfRow(r)].quantity = N(1)) =>
            /\ rows' = rows
            /\ items' = items
            /\ stored' = stored]_vars

\* C10: confirming the removal of a row whose identifier the lookup finds in
\* no item leaves the in-memory item list unchanged.
C10_RemovalOfAbsentId ==
    [][(ConfirmClick /\ itemToRemove # 0
            /\ FindItem(items, DataId(rows[RowIndex(itemToRemove)].id)) = 0) =>
        items' = items]_vars

C10_Witness ==
    /\ lastEvent = "confirm"
    /\ Len(rows) < Len(items)

\* A quantity handler runs on row r.
QuantityEvent(r) ==
    \/ \E t \in EditTexts : ChangeQuantity(r, t)
    \/ IncreaseClick(r)
    \/ DecreaseClick(r)

\* C11: a quantity change from a row whose identifier no in-memory item
\* carries as a number changes no item, no aggregate and no display of them,
\* writes nothing to the store and shows no error.
C11_QuantityLookupMiss ==
    [][\A r \in DOMAIN rows :
        (QuantityEvent(r)
            /\ \A i \in DOMAIN items : items[i].id # NumId(DataId(rows[r].id))) =>
        UNCHANGED <<items, subtotal, subtotalText, totalText, cartCountText,
                    stored, written, errorShown>>]_vars

C11_Witness ==
    /\ lastEvent = "increase"
    /\ initialStore = "cart"
    /\ ~written
    /\ Len(items) = 1
    /\ items[1].id = StrId(1)
    /\ Len(rows) = 1
    /\ rows[1].value = Dec(2, 0)
    /\ items[1].quantity = N(1)

C13_PersistAfterMutation ==
    [][(pc = "loaded" /\ (items' # items \/ stored' # stored)) =>
        /\ stored' = saveCartToLocalStorage(items')
        /\ written']_vars

C13_Witness ==
    /\ lastEvent = "confirm"
    /\ Len(items) = 1
    /\ items[1].quantity = N(0)
    /\ stored = saveCartToLocalStorage(items)
    /\ initialStore = "cart"

\* C14: the removal modal is shown exactly when a pending row is set, the
\* pending row is one attached row, and after a cancel or a confirm none is
\* set.
C14_ModalIffPending ==
    /\ (modal = "block") <=> (itemToRemove # 0)
    /\ itemToRemove # 0 =>
            Cardinality({r \in DOMAIN rows : rows[r].key = itemToRemove}) = 1
    /\ lastEvent \in {"cancel", "cancelIdle", "confirm", "confirmIdle"} =>
            (itemToRemove = 0 /\ modal = "none")

C14_Witness ==
    /\ lastEvent = "remove"
    /\ modal = "block"
    /\ itemToRemove = MaxItems
    /\ Len(rows) = MaxItems

\* C15: with nothing stored, the load makes one network request and never a
\* second one; when the response parses, the load completes with the fetched
\* list in memory, one row per item, and that list saved in the store.
C15_SingleFetch ==
    [][initialStore = "absent" =>
        /\ netRequests' <= 1
        /\ pc' # "init" => netRequests' = 1
        /\ (pc = "parsing" /\ pc' = "loaded") =>
                /\ items' \in Snapshots
                /\ Len(rows') = Len(items')
                /\ stored' = saveCartToLocalStorage(items')
                /\ written'
        /\ pc' = "loaded" => (written' /\ stored'.k = "cart")]_vars

C15_Witness ==
    /\ initialStore = "absent"
    /\ pc = "loaded"
    /\ netRequests = 1
    /\ lastEvent = "none"
    /\ Len(items) = MaxItems
    /\ stored = saveCartToLocalStorage(items)

\* C16: what getCartFromLocalStorage reads back right after
\* saveCartToLocalStorage of the in-memory cart is the in-memory item list,
\* in every state a loaded cart can be in.
C16_RoundTrip ==
    pc = "loaded" =>
        getCartFromLocalStorage(saveCartToLocalStorage(items)).items = items

\* C17: while the removal modal is shown, a step that is neither the cancel
\* nor the confirm handler changes neither the in-memory items, the store,
\* the rows nor the pending row.
C17_ModalGated ==
    [][(modal = "block" /\ ~CancelClick /\ ~ConfirmClick) =>
        UNCHANGED <<items, stored, rows, itemToRemove>>]_vars

\* C18: once the cart is loaded, the rows stand one-to-one and in order for
\* the in-memory items, and each row's field and line total show its item's
\* quantity and price x quantity.
C18_ViewMatchesModel ==
    pc = "loaded" =>
        /\ Len(rows) = Len(items)
        /\ \A i \in DOMAIN rows :
            /\ i \in DOMAIN items
            /\ rows[i].id = items[i].id
            /\ rows[i].value = ToText(items[i].quantity)
            /\ rows[i].total = formatCurrency(Mul(items[i].price, items[i].quantity))

\* C19: while the fetch or the parsing of its response is pending, whatever
\* the user has clicked, the in-memory cart is empty, there is no row, no
\* pending removal, no error and no aggregate shown, the store is unwritten,
\* and the only alert a click can have raised is the empty-cart one.
C19_PendingFetchInert ==
    pc \in {"fetching", "parsing"} =>
        /\ items = <<>>
        /\ rows = <<>>
        /\ itemToRemove = 0
        /\ modal = "none"
        /\ ~errorShown
        /\ ~written
        /\ stored = Absent
        /\ subtotal = N(0)
        /\ subtotalText = Unset /\ totalText = Unset /\ cartCountText = Unset
        /\ netRequests = 1
        /\ alert \in {"none", "Your cart is empty!"}
        /\ lastEvent \in {"none", "cancelIdle", "confirmIdle", "checkout"}

C19_Witness ==
    /\ pc = "parsing"
    /\ lastEvent = "confirmIdle"
    /\ items = <<>>
    /\ ~written

\* C20: a quantity handler leaves the number, order, identifiers and prices
\* of the items as they were and changes the quantity only of an item that
\* carries the row's identifier; a confirmed removal leaves exactly the items
\* whose identifier differs from the pending row's, in their previous order.
C20_MutationFrame ==
    [][/\ \A r \in DOMAIN rows : QuantityEvent(r) =>
            /\ Len(items') = Len(items)
            /\ \A j \in DOMAIN items :
                /\ items'[j].id = items[j].id
                /\ items'[j].price = items[j].price
                /\ items'[j].quantity # items[j].quantity => items[j].id = rows[r].id
       /\ (ConfirmClick /\ itemToRemove # 0) =>
            LET x == rows[RowIndex(itemToRemove)].id IN
            items' = SelectSeq(items, LAMBDA it : it.id # x)]_vars

====
